---- MODULE Spec2Model ----
(***************************************************************************)
(* Company research report generator: the research orchestrator           *)
(* (researchers/multi_source_researcher.py), the two cached provider      *)
(* clients (third_party_api/), the web search (search_engines/) and the   *)
(* delivery pipeline of the two synchronous endpoints                     *)
(* (api/company_research_fastapi.py, api/email_service.py,                *)
(* api/drive_uploader_complete.py).                                       *)
(*                                                                         *)
(* Requests are served one after the other; the provider fetches of one   *)
(* request are separate tasks whose steps interleave.  The on-disk cache  *)
(* outlives the requests.                                                 *)
(***************************************************************************)
EXTENDS Integers, Sequences, FiniteSets, TLC

\* ------------------------------------------------------------------ bounds
\* requests served in a run with every request option (Spec)
MaxRequests == 1
\* requests served in a run of plain requests over a shared cache (CacheSpec)
MaxCacheRequests == 2
\* distinct documents an upstream service answers with
NumPayloads == 2
\* pieces an identifier is put together from (NameSpec)
MaxParts == 3
\* competitors in a CoreSignal payload (CompetitorSpec)
MaxCompetitors == 6
\* update items in a CoreSignal payload (UpdateSpec)
MaxUpdates == 4
\* handlers on the event loop at the same time (LoopSpec)
NumHandlers == 2
\* distinct answers an upstream service gives to racing fetches (RaceSpec)
NumRaceDocs == 2

\* --------------------------------------------------------------- constants
Providers == {"apollo", "coresignal", "tavily"}
CachedProviders == {"apollo", "coresignal"}
Endpoints == {"multi", "coresignal"}

\* strings the code takes apart are sequences of characters
HTTPS == <<"h", "t", "t", "p", "s", ":", "/", "/">>
HTTP == <<"h", "t", "t", "p", ":", "/", "/">>
WWW == <<"w", "w", "w", ".">>
Domains == {<<"a", ".", "c", "o", "m">>, <<"b", ".", "i", "o">>}

None == "None"
Emails == {None, "user@example.com"}
FolderIds == {None, "folder-1"}

\* documents an upstream service can answer with; ErrorBody is the JSON body
\* of a non-success answer, NoDoc stands for "no value yet"
Docs == 1..NumPayloads
ErrorBody == 0
NoDoc == -1
\* the one document of the runs in which the documents play no part
OneDoc == {1}

\* 25MB attachment limit, in bytes
AttachLimit == 25 * 1024 * 1024
PdfSizes == {AttachLimit - 1, AttachLimit}

VARIABLES
    GOOGLE_DRIVE_AVAILABLE,   \* module flag, set by the import at start-up
    EMAIL_SERVICE_AVAILABLE,  \* module flag, set by the import at start-up
    files,          \* results/third_party_api_response: path -> file content
    reqNo,          \* number of requests started so far
    request,        \* the request being served
    pc,             \* position of the handler
    task,           \* provider -> position of its fetch task
    result,         \* provider -> payload the fetch returned
    net,            \* provider -> network calls made by this request
    cache_hit,      \* provider -> the fetch was answered from the cache file
    answered,       \* provider -> what its upstream service answered this request
    firstExc,       \* provider whose exception the join saw first
    llm_calls,      \* completion-service calls made by this request
    bundle,         \* the dictionary research_company returned
    pdf,            \* the temporary PDF file of this request
    pdf_size,       \* its size in bytes
    drive_result,   \* outcome record of the upload sink
    email_result,   \* outcome record of the email sink
    sinks,          \* what happened in each sink (cause of its outcome)
    sent,           \* the message that reached the inbox
    response,       \* what the handler returned or raised
    warm,           \* provider, domain -> payload of an earlier successful research call
    keys,           \* providers whose API key is set in the environment
    ack,            \* what the caller of a background endpoint got
    naming,         \* a researcher object resolving its company name
    prompting,      \* a CoreSignal payload being made into the LLM prompt
    loop,           \* the event loop and the handlers it runs side by side
    race,           \* two fetches of one provider that share a cache file
    slugging        \* two identifiers and the cache files they are given

vars == <<GOOGLE_DRIVE_AVAILABLE, EMAIL_SERVICE_AVAILABLE, files, reqNo,
          request, pc, task, result, net, cache_hit, answered, firstExc,
          llm_calls, bundle, pdf, pdf_size, drive_result, email_result, sinks, sent,
          response, warm, keys, ack, naming, prompting, loop, race, slugging>>

fetchVars == <<task, result, net, cache_hit, answered, firstExc>>
deliveryVars == <<pdf, pdf_size, drive_result, email_result, sinks, sent>>
flagVars == <<GOOGLE_DRIVE_AVAILABLE, EMAIL_SERVICE_AVAILABLE>>
\* what no step of a request changes: the credentials of the environment and
\* the objects of the name and prompt computations
sideVars == <<loop, race, slugging>>
fixedVars == <<keys, naming, prompting, sideVars>>
\* everything the handlers of the API work on
serverVars == <<flagVars, files, reqNo, request, pc, fetchVars, llm_calls,
                bundle, deliveryVars, response, warm, keys, ack>>

\* ----------------------------------------------------------- string helpers
\* str.startswith
startswith(s, prefix) ==
    /\ Len(s) >= Len(prefix)
    /\ SubSeq(s, 1, Len(prefix)) = prefix

\* str.replace(old, new): every non-overlapping occurrence, left to right
RECURSIVE replace(_, _, _)
replace(s, old, new) ==
    IF Len(s) < Len(old) THEN s
    ELSE IF SubSeq(s, 1, Len(old)) = old
         THEN new \o replace(SubSeq(s, Len(old) + 1, Len(s)), old, new)
         ELSE <<Head(s)>> \o replace(Tail(s), old, new)

\* ApolloOrganizationAPI.organization_enrichment_api: company_slug
company_slug(domain) ==
    replace(replace(domain, <<".">>, <<"_">>), <<" ">>, <<"_">>)

\* CoreSignalMultiSourceAPI.__init__: website_slug
website_slug(website) ==
    replace(replace(replace(replace(replace(website,
        HTTPS, <<>>), HTTP, <<>>), WWW, <<>>), <<".">>, <<"_">>), <<"/">>, <<"_">>)

\* coresignal_generate_pdf_report: "Normalize website URL"
normalize_website(website) ==
    IF startswith(website, HTTP) \/ startswith(website, HTTPS)
    THEN website
    ELSE HTTPS \o website

\* the identifier each client of a request is constructed with
ClientArg(req, p) ==
    IF req.endpoint = "coresignal" THEN normalize_website(req.domain)
    ELSE req.domain

\* the cache file of provider p for the client argument arg
file_path(p, arg) ==
    IF p = "apollo"
    THEN [slug |-> company_slug(arg), suffix |-> "_apollo_api_response.json"]
    ELSE [slug |-> website_slug(arg),
          suffix |-> "_coresignal_multisource_api_response.json"]

\* json.dump / json.load on a cache file
json_dump(doc) == [valid |-> TRUE, doc |-> doc, fault |-> "none"]
json_loadable(content) == content.valid

\* what is wrong with a file that does not load: its text is not JSON
\* (json.JSONDecodeError), it cannot be opened or read (IOError), or its
\* bytes are not text (UnicodeDecodeError, raised by f.read() in text mode)
Faults == {"not_json", "unreadable", "not_text"}

\* try: json.load(f) ... except (json.JSONDecodeError, IOError)
LoadOutcome(content) ==
    IF json_loadable(content) THEN "loaded"
    ELSE IF content.fault \in {"not_json", "unreadable"} THEN "caught"
    ELSE "raised"
json_load(content) == content.doc

\* os.path.exists
exists(fs, path) == path \in DOMAIN fs

\* open(file_path, "w"); json.dump(result, f)
write_file(fs, path, doc) ==
    [x \in DOMAIN fs \cup {path} |-> IF x = path THEN json_dump(doc) ELSE fs[x]]

\* open(file_path, "w") truncated the file and json.dump did not finish
cut_file(fs, path) ==
    [x \in DOMAIN fs \cup {path} |->
        IF x = path THEN [valid |-> FALSE, doc |-> NoDoc, fault |-> "not_json"]
        ELSE fs[x]]

\* ------------------------------------------------------------ record shapes
NoRequest ==
    [endpoint |-> None, domain |-> <<>>, email |-> None,
     upload_to_drive |-> FALSE, upload_to_drive_folder_id |-> None,
     background |-> FALSE, return_data |-> FALSE]

NoResult == [present |-> FALSE, success |-> FALSE, view_link |-> None, error |-> None]
NoBundle == [present |-> FALSE, apollo |-> NoDoc, coresignal |-> NoDoc, tavily |-> NoDoc]
NoSent == [delivered |-> FALSE, attached |-> FALSE, link |-> None]
NoSinks == [upload |-> "skipped", email |-> "skipped"]
NoResponse ==
    [kind |-> None, status |-> 0, detail |-> None, cause |-> None,
     google_drive |-> NoResult, email_result |-> NoResult, email_sent |-> FALSE,
     raw_data |-> NoBundle]
NoAck == [status |-> None, website |-> <<>>, email |-> None]
NoName == [set |-> FALSE, value |-> <<>>]
NoField == [present |-> FALSE, value |-> <<>>]
NoNaming ==
    [stage |-> "none", domain |-> <<>>,
     apollo_data |-> [organization |-> [kind |-> "absent", name |-> NoField],
                      name |-> NoField],
     coresignal_data |-> [company_name |-> NoField],
     stored |-> NoName, company_name |-> <<>>,
     searched |-> FALSE, query |-> <<>>]
NoPrompt ==
    [competitors |-> <<>>, news |-> <<>>, all_company_updates |-> <<>>,
     data |-> [competitors |-> <<>>, company_updates |-> <<>>]]
NoPrompting ==
    [stage |-> "none", endpoint |-> None,
     coresignal_data |-> [competitors |-> <<>>, company_updates |-> <<>>],
     fetched |-> [competitors |-> <<>>, company_updates |-> <<>>],
     prompt |-> NoPrompt]

\* the handlers the event loop runs side by side
Handlers == 1..NumHandlers
\* the event loop runs no handler
NoThread == 0
NoLoop ==
    [endpoint |-> [h \in Handlers |-> None], at |-> [h \in Handlers |-> 0],
     phase |-> [h \in Handlers |-> "none"], thread |-> NoThread]
\* the two fetches of one provider and one identifier that run at once
Racers == {1, 2}
NoWriter == 0
\* a cache file that does not exist
NoFile == [exists |-> FALSE, cells |-> <<>>]
NoRace ==
    [stage |-> "none", provider |-> None, file |-> NoFile,
     pos |-> [r \in Racers |-> "none"],
     fresh |-> [r \in Racers |-> 0],
     returned |-> [r \in Racers |-> <<>>],
     last |-> NoWriter]
NoSlugging ==
    [stage |-> "none", endpoint |-> None, first |-> <<>>, second |-> <<>>,
     paths |-> <<>>]

\* the tasks a request of this endpoint awaits
Awaited(endpoint) ==
    IF endpoint = "multi" THEN Providers
    ELSE IF endpoint = "coresignal" THEN {"coresignal"}
    ELSE {}

\* a fetch task that has stopped running
Terminal(t) == t \in {"idle", "ok", "fail"}

\* the server after start-up: no request yet, an empty cache directory
Boot ==
    /\ GOOGLE_DRIVE_AVAILABLE \in BOOLEAN
    /\ EMAIL_SERVICE_AVAILABLE \in BOOLEAN
    /\ files = [x \in {} |-> json_dump(NoDoc)]
    /\ reqNo = 0
    /\ request = NoRequest
    /\ pc = "idle"
    /\ task = [p \in Providers |-> "idle"]
    /\ result = [p \in Providers |-> NoDoc]
    /\ net = [p \in Providers |-> 0]
    /\ cache_hit = [p \in Providers |-> FALSE]
    /\ answered = [p \in Providers |-> "nothing"]
    /\ firstExc = None
    /\ llm_calls = 0
    /\ bundle = NoBundle
    /\ pdf = "none"
    /\ pdf_size = 0
    /\ drive_result = NoResult
    /\ email_result = NoResult
    /\ sinks = NoSinks
    /\ sent = NoSent
    /\ response = NoResponse
    /\ warm = [p \in Providers |-> [d \in Domains |-> NoDoc]]
    /\ ack = NoAck

\* no handlers side by side, no racing fetches, no identifiers compared
Aside ==
    /\ loop = NoLoop
    /\ race = NoRace
    /\ slugging = NoSlugging

Init ==
    /\ Boot
    /\ Aside
    /\ keys = Providers
    /\ naming = NoNaming
    /\ prompting = NoPrompting

\* ------------------------------------------------------------- the handlers
\* the provider clients the handler constructs before any fetch:
\* MultiSourceResearcher.__init__ builds the Apollo and the CoreSignal client,
\* coresignal_generate_pdf_report the CoreSignal client; each constructor
\* raises ValueError when its API key is not set
Constructed(endpoint) ==
    IF endpoint = "multi" THEN {"apollo", "coresignal"} ELSE {"coresignal"}

\* raise HTTPException(status_code=500, ...)
HttpError(detail, cause) ==
    [NoResponse EXCEPT !.kind = "http_error", !.status = 500,
                       !.detail = detail, !.cause = cause]

\* The handler of req starts.  It builds its clients and, when they are
\* built, starts the fetches: research_company creates the three coroutines
\* and hands them to asyncio.gather; the CoreSignal-only endpoint awaits one
\* to_thread call.
Begin(req) ==
    /\ pc \in {"idle", "done"}
    /\ \A p \in Providers : Terminal(task[p])
    /\ reqNo' = reqNo + 1
    /\ request' = req
    /\ IF Constructed(req.endpoint) \subseteq keys
       THEN /\ pc' = "research"
            /\ task' = [p \in Providers |->
                           IF p \in Awaited(req.endpoint) THEN "start" ELSE "idle"]
            /\ response' = NoResponse
       ELSE /\ pc' = "done"
            /\ task' = [p \in Providers |-> "idle"]
            /\ response' = HttpError("research", "config")
    /\ result' = [p \in Providers |-> NoDoc]
    /\ net' = [p \in Providers |-> 0]
    /\ cache_hit' = [p \in Providers |-> FALSE]
    /\ answered' = [p \in Providers |-> "nothing"]
    /\ firstExc' = None
    /\ llm_calls' = 0
    /\ bundle' = NoBundle
    /\ pdf' = "none"
    /\ pdf_size' = 0
    /\ drive_result' = NoResult
    /\ email_result' = NoResult
    /\ sinks' = NoSinks
    /\ sent' = NoSent
    /\ UNCHANGED <<flagVars, fixedVars, files>>

\* A request arrives at one of the two synchronous endpoints.
StartRequest(endpoint, domain, email, upload, folder) ==
    /\ Begin([endpoint |-> endpoint, domain |-> domain, email |-> email,
              upload_to_drive |-> upload, upload_to_drive_folder_id |-> folder,
              background |-> FALSE, return_data |-> FALSE])
    /\ ack' = NoAck

\* A request arrives at the multi-source endpoint and says whether it wants
\* the raw data (return_data: bool = False)
StartDataRequest(domain, email, upload, folder, return_data) ==
    /\ Begin([endpoint |-> "multi", domain |-> domain, email |-> email,
              upload_to_drive |-> upload, upload_to_drive_folder_id |-> folder,
              background |-> FALSE, return_data |-> return_data])
    /\ ack' = NoAck

\* the websites a background request names: a bare domain or a full URL
Websites == Domains \cup {HTTPS \o WWW \o d : d \in Domains}

\* multi_source_research_background: "Extract domain from website URL"
extract_domain(website) ==
    replace(replace(replace(website, HTTPS, <<>>), HTTP, <<>>), WWW, <<>>)

\* "Return immediate success response"
Acknowledgement(website, email) ==
    [status |-> "processing", website |-> website, email |-> email]

\* A request arrives at one of the two background endpoints: the handler
\* wraps the synchronous handler in asyncio.create_task, with the upload
\* switched on and the folder of the environment, and returns the
\* acknowledgement at once.  The task is never awaited.
StartBackground(endpoint, website, email, folder) ==
    /\ Begin([endpoint |-> endpoint,
              domain |-> IF endpoint = "multi" THEN extract_domain(website)
                         ELSE website,
              email |-> email, upload_to_drive |-> TRUE,
              upload_to_drive_folder_id |-> folder, background |-> TRUE,
              return_data |-> FALSE])
    /\ ack' = Acknowledgement(website, email)

\* history: the payloads of the first research_company call that returned,
\* per domain, noted when the next request arrives
Remember ==
    warm' = [p \in Providers |-> [d \in Domains |->
                IF /\ request.endpoint = "multi"
                   /\ bundle.present
                   /\ d = request.domain
                   /\ warm[p][d] = NoDoc
                THEN bundle[p]
                ELSE warm[p][d]]]

\* organization_enrichment_api / company_multi_source_enrich, first half:
\* return the cached response when its file exists and loads
CacheLookup(p) ==
    /\ p \in CachedProviders
    /\ task[p] = "start"
    /\ LET path == file_path(p, ClientArg(request, p))
       IN IF exists(files, path) /\ LoadOutcome(files[path]) = "loaded"
          THEN /\ result' = [result EXCEPT ![p] = json_load(files[path])]
               /\ cache_hit' = [cache_hit EXCEPT ![p] = TRUE]
               /\ task' = [task EXCEPT ![p] = "ok"]
               /\ UNCHANGED firstExc
          ELSE IF exists(files, path) /\ LoadOutcome(files[path]) = "raised"
          THEN /\ task' = [task EXCEPT ![p] = "fail"]
               /\ firstExc' = IF firstExc = None THEN p ELSE firstExc
               /\ UNCHANGED <<result, cache_hit>>
          ELSE /\ task' = [task EXCEPT ![p] = "http"]
               /\ UNCHANGED <<result, cache_hit, firstExc>>
    /\ UNCHANGED <<flagVars, fixedVars, files, reqNo, request, pc, net, answered,
                   llm_calls, bundle, deliveryVars, response, warm, ack>>

\* get_major_customers_async: no cache file, the search is always issued.
\* The function does not look at TAVILY_API_KEY itself (get_tavily_client,
\* which does, is not used): it hands os.getenv's value to AsyncTavilyClient.
\* Whether that constructor rejects a missing key is the library's affair:
\* rejects says it does.
TavilyStart(rejects) ==
    /\ task["tavily"] = "start"
    /\ IF "tavily" \notin keys /\ rejects
       THEN /\ task' = [task EXCEPT !["tavily"] = "fail"]
            /\ firstExc' = IF firstExc = None THEN "tavily" ELSE firstExc
       ELSE /\ task' = [task EXCEPT !["tavily"] = "http"]
            /\ UNCHANGED firstExc
    /\ UNCHANGED <<flagVars, fixedVars, files, reqNo, request, pc, result, net,
                   cache_hit, answered, llm_calls, bundle, deliveryVars,
                   response, warm, ack>>

\* what the client makes of the answer of its upstream service:
\* "raise" or the payload it goes on with
\*   answer.transport : the call itself succeeded (no connection error)
\*   answer.status_ok : 2xx
\*   answer.json_ok   : the body parses as JSON
Answers(docs) ==
    [transport : BOOLEAN, status_ok : BOOLEAN, json_ok : BOOLEAN, doc : docs]

Answered(p, answer) ==
    IF ~answer.transport THEN "raise"
    ELSE IF p = "coresignal" /\ ~answer.status_ok THEN "raise"
    ELSE IF p = "tavily" /\ ~answer.status_ok THEN "raise"
    ELSE IF ~answer.json_ok THEN "raise"
    ELSE "payload"

PayloadOf(answer) == IF answer.status_ok THEN answer.doc ELSE ErrorBody

\* what came back from the upstream service: nothing (the connection failed),
\* a 2xx answer with a JSON body, or an answer with a non-success status or
\* with a body that is not JSON
AnswerClass(answer) ==
    IF ~answer.transport THEN "nothing"
    ELSE IF answer.status_ok /\ answer.json_ok THEN "good"
    ELSE "bad"

\* variant: the fresh payload is returned without being saved
AfterAnswer_unsaved(p) == "ok"

\* where a fetch goes once it holds a fresh payload
AfterAnswer(p) == IF p \in CachedProviders THEN "write" ELSE "ok"

\* requests.get(...) / tavily_client.search(...)
HttpCall(p, answer) ==
    /\ task[p] = "http"
    \* a call without the API key is not answered with success
    /\ p \notin keys => ~answer.status_ok
    /\ net' = [net EXCEPT ![p] = @ + 1]
    /\ answered' = [answered EXCEPT ![p] = AnswerClass(answer)]
    /\ IF Answered(p, answer) = "raise"
       THEN /\ task' = [task EXCEPT ![p] = "fail"]
            /\ firstExc' = IF firstExc = None THEN p ELSE firstExc
            /\ UNCHANGED result
       ELSE /\ task' = [task EXCEPT ![p] = AfterAnswer(p)]
            /\ result' = [result EXCEPT ![p] = PayloadOf(answer)]
            /\ UNCHANGED firstExc
    /\ UNCHANGED <<flagVars, fixedVars, files, reqNo, request, pc, cache_hit,
                   llm_calls, bundle, deliveryVars, response, warm, ack>>

\* what the file system does with the write: json.dump raises half way and
\* leaves a truncated file behind (disk full), or the file is written
WriteOutcomes == {"dump_raises", "written"}

\* second half of the cached clients: save the response, then return it;
\* an exception of the write is raised to the caller of the fetch
CacheWrite(p, outcome) ==
    /\ p \in CachedProviders
    /\ task[p] = "write"
    /\ LET path == file_path(p, ClientArg(request, p))
       IN files' = IF outcome = "written" THEN write_file(files, path, result[p])
                   ELSE cut_file(files, path)
    /\ task' = [task EXCEPT ![p] = IF outcome = "written" THEN "ok" ELSE "fail"]
    /\ firstExc' = IF outcome # "written" /\ firstExc = None THEN p ELSE firstExc
    /\ UNCHANGED <<flagVars, fixedVars, reqNo, request, pc, result, net, cache_hit,
                   answered, llm_calls, bundle, deliveryVars, response, warm, ack>>

\* variant: a join that collects exceptions instead of raising the first one
\* (asyncio.gather(..., return_exceptions=True))
GatherOutcome_collect(t, awaited) ==
    IF \A p \in awaited : t[p] \in {"ok", "fail"} THEN "return"
    ELSE "wait"

\* variant: a join that returns as soon as one task is done
\* (asyncio.wait(..., return_when=FIRST_COMPLETED))
GatherOutcome_any(t, awaited) ==
    IF \E p \in awaited : t[p] = "fail" THEN "raise"
    ELSE IF \E p \in awaited : t[p] = "ok" THEN "return"
    ELSE "wait"

\* asyncio.gather(apollo_task, tavily_task, coresignal_task) without
\* return_exceptions (and the single await of the CoreSignal-only endpoint):
\* the first exception is raised to the caller, otherwise the join waits for
\* every task
GatherOutcome(t, awaited) ==
    IF \E p \in awaited : t[p] = "fail" THEN "raise"
    ELSE IF \A p \in awaited : t[p] = "ok" THEN "return"
    ELSE "wait"

\* variant: the background handler awaits the run it started and passes its
\* error on
Reported_awaited(background, a, outcome) ==
    IF background /\ outcome.kind = "http_error"
    THEN [a EXCEPT !.status = "error"]
    ELSE a

\* what the caller of a background endpoint holds once the handler it set
\* off has returned or raised: the task made by asyncio.create_task is not
\* awaited and has no done-callback, so its outcome reaches nobody
Reported(background, a, outcome) == a

\* a fetch raised: research_company raises it, the handler's
\* "except Exception" answers 500
JoinRaise ==
    /\ pc = "research"
    /\ GatherOutcome(task, Awaited(request.endpoint)) = "raise"
    /\ response' = HttpError("research", firstExc)
    /\ ack' = Reported(request.background, ack, response')
    /\ pc' = "done"
    /\ UNCHANGED <<flagVars, fixedVars, files, reqNo, request, fetchVars, llm_calls,
                   bundle, deliveryVars, warm>>

\* every awaited fetch returned: the handler goes on to the synthesis
JoinReturn ==
    /\ pc = "research"
    /\ GatherOutcome(task, Awaited(request.endpoint)) = "return"
    /\ pc' = "synth"
    /\ UNCHANGED <<flagVars, fixedVars, files, reqNo, request, fetchVars, llm_calls,
                   bundle, deliveryVars, response, warm, ack>>

\* what the report generation does: the code before the completion call
\* raises (load_company_schema finds no schema file, a payload is not of the
\* expected shape), the completion call raises, or it returns the report
SynthOutcomes == {"prompt_raises", "call_raises", "returned"}

\* variant: a failed completion call is made a second time
AfterSynthesis_retry(outcome, calls) ==
    IF outcome = "returned" THEN "render"
    ELSE IF outcome = "call_raises" /\ calls < 2 THEN "synth"
    ELSE "error"

\* variant: a failed report generation is logged and the handler goes on
AfterSynthesis_lenient(outcome, calls) == "render"

\* response = await self.llm.ainvoke(...) / model.invoke(...): where the
\* handler goes after the report generation, calls being the completion calls
\* made so far; nothing catches the exception before the handler's
\* "except Exception"
AfterSynthesis(outcome, calls) ==
    IF outcome = "returned" THEN "render" ELSE "error"

\* generate_llm_company_report / generate_markdown_report_with_llm: one call
\* of the completion service; research_company then returns its dictionary
Synthesize(outcome) ==
    /\ pc = "synth"
    /\ llm_calls' = IF outcome = "prompt_raises" THEN llm_calls ELSE llm_calls + 1
    /\ LET next == AfterSynthesis(outcome, llm_calls')
       IN /\ pc' = IF next = "error" THEN "done" ELSE next
          /\ bundle' = IF next = "render" /\ request.endpoint = "multi"
                        THEN [present |-> TRUE, apollo |-> result["apollo"],
                              coresignal |-> result["coresignal"],
                              tavily |-> result["tavily"]]
                        ELSE bundle
          /\ response' = IF next = "error" THEN HttpError("research", "llm")
                          ELSE response
    /\ ack' = Reported(request.background, ack, response')
    /\ UNCHANGED <<flagVars, fixedVars, files, reqNo, request, fetchVars,
                   deliveryVars, warm>>

\* variant: the exit status of pandoc is not checked (check=False)
AfterRender_unchecked(ok) == "upload"

\* subprocess.run(simple_cmd, check=True): where the handler goes after pandoc
AfterRender(ok) == IF ok THEN "upload" ELSE "error"

\* the temporary PDF is created empty, pandoc fills it
Render(ok, size) ==
    /\ pc = "render"
    /\ pdf' = IF ok THEN "rendered" ELSE "empty"
    /\ pdf_size' = IF ok THEN size ELSE 0
    /\ IF AfterRender(ok) = "upload"
       THEN pc' = "upload" /\ UNCHANGED response
       ELSE pc' = "done" /\ response' = HttpError("pandoc", "pandoc")
    /\ ack' = Reported(request.background, ack, response')
    /\ UNCHANGED <<flagVars, fixedVars, files, reqNo, request, fetchVars, llm_calls,
                   bundle, drive_result, email_result, sinks, sent, warm>>

Failure(error) == [present |-> TRUE, success |-> FALSE, view_link |-> None, error |-> error]
Success(link) == [present |-> TRUE, success |-> TRUE, view_link |-> link, error |-> None]

\* what the upload sink did: GoogleDriveUploader() raised, upload_file
\* returned None (it swallows its own exceptions), or the file was stored
UploadOutcomes == {"ctor_raises", "no_result", "stored"}

\* "Handle Google Drive upload if requested": the cause of drive_result
UploadCause(upload, available, folder, outcome) ==
    IF ~upload THEN "not_requested"
    ELSE IF ~available THEN "unavailable"
    ELSE IF folder = None THEN "no_folder"
    ELSE outcome

\* variant: no else branch for an empty upload_result, drive_result stays None
DriveResult_noElse(upload, available, folder, outcome) ==
    LET cause == UploadCause(upload, available, folder, outcome)
    IN IF cause \in {"not_requested", "no_result"} THEN NoResult
       ELSE IF cause = "unavailable" THEN Failure("Google Drive uploader not available")
       ELSE IF cause = "no_folder" THEN Failure("Google Drive upload folder ID is not set")
       ELSE IF cause = "ctor_raises" THEN Failure("exception")
       ELSE Success("webViewLink")

\* "Handle Google Drive upload if requested": drive_result
DriveResult(upload, available, folder, outcome) ==
    LET cause == UploadCause(upload, available, folder, outcome)
    IN IF cause = "not_requested" THEN NoResult
       ELSE IF cause = "unavailable" THEN Failure("Google Drive uploader not available")
       ELSE IF cause = "no_folder" THEN Failure("Google Drive upload folder ID is not set")
       ELSE IF cause = "ctor_raises" THEN Failure("exception")
       ELSE IF cause = "no_result" THEN Failure("Upload failed - no result returned from Google Drive")
       ELSE Success("webViewLink")

Upload(outcome) ==
    /\ pc = "upload"
    /\ drive_result' = DriveResult(request.upload_to_drive, GOOGLE_DRIVE_AVAILABLE,
                                   request.upload_to_drive_folder_id, outcome)
    /\ sinks' = [sinks EXCEPT !.upload =
                    UploadCause(request.upload_to_drive, GOOGLE_DRIVE_AVAILABLE,
                                request.upload_to_drive_folder_id, outcome)]
    /\ pc' = "email"
    /\ UNCHANGED <<flagVars, fixedVars, files, reqNo, request, fetchVars, llm_calls,
                   bundle, pdf, pdf_size, email_result, sent, response, warm, ack>>

\* what the email sink did: EmailService() raised, is_configured() was false,
\* the SMTP dialogue raised (send_pdf_report catches it), or the mail went out
EmailOutcomes == {"ctor_raises", "not_configured", "send_raises", "sent"}

\* "Handle email sending if requested": the cause of email_result
EmailCause(email, available, outcome) ==
    IF email = None THEN "not_requested"
    ELSE IF ~available THEN "unavailable"
    ELSE outcome

\* "Handle email sending if requested": email_result
EmailResult(email, available, outcome) ==
    LET cause == EmailCause(email, available, outcome)
    IN IF cause \in {"not_requested", "unavailable"} THEN NoResult
       ELSE IF cause = "ctor_raises" THEN Failure("Email error")
       ELSE IF cause = "not_configured" THEN Failure("Email service not configured")
       ELSE IF cause = "send_raises" THEN Failure("Failed to send email")
       ELSE Success(None)

\* variant: the link of the folder stands in when the upload failed
drive_link_folder(dr) ==
    IF dr.present /\ dr.success THEN dr.view_link
    ELSE IF dr.present THEN "folder"
    ELSE None

\* the link handed to send_pdf_report
drive_link(dr) == IF dr.present /\ dr.success THEN dr.view_link ELSE None

\* send_pdf_report: the PDF is attached when it exists and is under the limit
Attached(file, size) == file = "rendered" /\ size < AttachLimit

Email(outcome) ==
    /\ pc = "email"
    /\ email_result' = EmailResult(request.email, EMAIL_SERVICE_AVAILABLE, outcome)
    /\ sinks' = [sinks EXCEPT !.email =
                    EmailCause(request.email, EMAIL_SERVICE_AVAILABLE, outcome)]
    /\ sent' = IF EmailCause(request.email, EMAIL_SERVICE_AVAILABLE, outcome) = "sent"
               THEN [delivered |-> TRUE, attached |-> Attached(pdf, pdf_size),
                     link |-> drive_link(drive_result)]
               ELSE sent
    /\ pc' = "respond"
    /\ UNCHANGED <<flagVars, fixedVars, files, reqNo, request, fetchVars, llm_calls,
                   bundle, pdf, pdf_size, drive_result, response, warm, ack>>

\* variant: the email branch nested under a successful upload
ResponseShape_nested(email, dr) ==
    IF dr.present /\ dr.success
    THEN (IF email # None THEN "json_email" ELSE "json_drive")
    ELSE "file"

\* "Return appropriate response based on upload status, email status":
\* which of the three branches is taken
ResponseShape(email, dr) ==
    IF email # None THEN "json_email"
    ELSE IF dr.present /\ dr.success THEN "json_drive"
    ELSE "file"

\* variant: the email branch unlinks without looking at the sink outcomes
ShouldUnlink_always(shape, er, dr) ==
    shape \in {"json_email", "json_drive"}

\* os.unlink(pdf_path) in the branch taken
ShouldUnlink(shape, er, dr) ==
    IF shape = "json_email"
    THEN (er.present /\ er.success) \/ (dr.present /\ dr.success)
    ELSE shape = "json_drive"

\* variant: the raw data goes into every JSON response
RawData_always(req, shape, b) ==
    IF req.endpoint = "multi" /\ shape \in {"json_email", "json_drive"}
    THEN b ELSE NoBundle

\* "Include raw data if requested": response_data["raw_data"], in the two
\* JSON branches of the multi-source handler only
RawData(req, shape, b) ==
    IF req.endpoint = "multi" /\ req.return_data
       /\ shape \in {"json_email", "json_drive"}
    THEN b ELSE NoBundle

Respond ==
    /\ pc = "respond"
    /\ LET shape == ResponseShape(request.email, drive_result)
       IN /\ response' =
                IF shape = "json_email"
                THEN [NoResponse EXCEPT !.kind = "json", !.status = 200,
                                        !.google_drive = drive_result,
                                        !.email_result = email_result,
                                        !.email_sent = email_result.present
                                                       /\ email_result.success,
                                        !.raw_data = RawData(request, shape, bundle)]
                ELSE IF shape = "json_drive"
                THEN [NoResponse EXCEPT !.kind = "json", !.status = 200,
                                        !.google_drive = drive_result,
                                        !.raw_data = RawData(request, shape, bundle)]
                ELSE [NoResponse EXCEPT !.kind = "file", !.status = 200,
                                        !.detail = IF drive_result.present
                                                   THEN drive_result.error
                                                   ELSE None]
          /\ pdf' = IF ShouldUnlink(shape, email_result, drive_result)
                    THEN "deleted" ELSE pdf
    /\ ack' = Reported(request.background, ack, response')
    /\ pc' = "done"
    /\ UNCHANGED <<flagVars, fixedVars, files, reqNo, request, fetchVars, llm_calls,
                   bundle, pdf_size, drive_result, email_result, sinks, sent, warm>>

\* the steps of a request once it has arrived; the upstream services answer
\* with documents of the set docs
Serve(docs) ==
    \/ \E p \in CachedProviders : CacheLookup(p)
    \/ \E rejects \in BOOLEAN : TavilyStart(rejects)
    \/ \E p \in Providers, a \in Answers(docs) : HttpCall(p, a)
    \/ \E p \in CachedProviders, o \in WriteOutcomes : CacheWrite(p, o)
    \/ JoinRaise
    \/ JoinReturn
    \/ \E o \in SynthOutcomes : Synthesize(o)
    \/ \E ok \in BOOLEAN, size \in PdfSizes : Render(ok, size)
    \/ \E o \in UploadOutcomes : Upload(o)
    \/ \E o \in EmailOutcomes : Email(o)
    \/ Respond

\* requests with every combination of options; what the upstream documents
\* say plays no part in the delivery, so there is one of them
Next ==
    \/ /\ reqNo < MaxRequests
       /\ \E e \in Endpoints, d \in Domains, m \in Emails, u \in BOOLEAN, f \in FolderIds :
             StartRequest(e, d, m, u, f)
       /\ UNCHANGED warm
    \/ Serve(OneDoc)

Spec == Init /\ [][Next]_vars

\* requests to the multi-source endpoint with and without return_data
DataNext ==
    \/ /\ reqNo < MaxRequests
       /\ \E d \in Domains, m \in Emails, u \in BOOLEAN, f \in FolderIds,
             r \in BOOLEAN :
             StartDataRequest(d, m, u, f, r)
       /\ UNCHANGED warm
    \/ Serve(OneDoc)

DataSpec == Init /\ [][DataNext]_vars

\* ------------------------------------------------- the company name
DOTCOM == <<".", "c", "o", "m">>
EXAMPLE == <<"e", "x", "a", "m", "p", "l", "e">>
Pieces == {WWW, EXAMPLE, DOTCOM, <<".", "i", "o">>, <<"b">>}

RECURSIVE join(_)
join(parts) == IF parts = <<>> THEN <<>> ELSE Head(parts) \o join(Tail(parts))

\* the identifiers a request can carry: request.domain is any string
Identifiers ==
    {join(parts) : parts \in UNION {[1..n -> Pieces] : n \in 1..MaxParts}}

LowerCase == <<"a", "b", "c", "e", "i", "l", "m", "o", "p", "w", "x">>
UpperCase == <<"A", "B", "C", "E", "I", "L", "M", "O", "P", "W", "X">>
isalpha(c) == \E i \in 1..Len(LowerCase) : c = LowerCase[i] \/ c = UpperCase[i]
upper(c) ==
    IF \E i \in 1..Len(LowerCase) : c = LowerCase[i]
    THEN UpperCase[CHOOSE i \in 1..Len(LowerCase) : c = LowerCase[i]]
    ELSE c
lower(c) ==
    IF \E i \in 1..Len(UpperCase) : c = UpperCase[i]
    THEN LowerCase[CHOOSE i \in 1..Len(UpperCase) : c = UpperCase[i]]
    ELSE c

\* str.title(): the first letter of every run of letters in upper case, the
\* other letters in lower case
RECURSIVE title_from(_, _)
title_from(s, in_word) ==
    IF s = <<>> THEN <<>>
    ELSE IF isalpha(Head(s))
    THEN <<IF in_word THEN lower(Head(s)) ELSE upper(Head(s))>>
         \o title_from(Tail(s), TRUE)
    ELSE <<Head(s)>> \o title_from(Tail(s), FALSE)

title(s) == title_from(s, FALSE)

\* the property company_name: "Default to domain name capitalized if not set
\* from API data"
company_name(domain, stored) ==
    IF ~stored.set
    THEN title(replace(replace(domain, DOTCOM, <<>>), WWW, <<>>))
    ELSE stored.value

\* the name fields of the payloads: absent, empty or a name
ORG == <<"O", "r", "g">>
CS == <<"C", "s">>
TOP == <<"T", "o", "p">>
Field(name) == {NoField, [present |-> TRUE, value |-> <<>>],
                [present |-> TRUE, value |-> name]}

\* the Apollo payload: "organization" is absent, null or a dictionary
ApolloPayloads ==
    [organization : {[kind |-> "absent", name |-> NoField],
                     [kind |-> "null", name |-> NoField]}
                    \cup {[kind |-> "dict", name |-> f] : f \in Field(ORG)},
     name : Field(TOP)]
CoreSignalPayloads == [company_name : Field(CS)]

\* dict.get(key) in a condition: the key is there and its value is not empty
truthy(field) == field.present /\ field.value # <<>>

\* variant: the top-level Apollo name is looked at before the CoreSignal name
set_company_name_from_data_swapped(stored, apollo_data, coresignal_data) ==
    IF truthy(apollo_data.organization.name)
    THEN [set |-> TRUE, value |-> apollo_data.organization.name.value]
    ELSE IF truthy(apollo_data.name)
    THEN [set |-> TRUE, value |-> apollo_data.name.value]
    ELSE IF truthy(coresignal_data.company_name)
    THEN [set |-> TRUE, value |-> coresignal_data.company_name.value]
    ELSE stored

\* _set_company_name_from_data: the new value of self._company_name
set_company_name_from_data(stored, apollo_data, coresignal_data) ==
    IF truthy(apollo_data.organization.name)
    THEN [set |-> TRUE, value |-> apollo_data.organization.name.value]
    ELSE IF truthy(coresignal_data.company_name)
    THEN [set |-> TRUE, value |-> coresignal_data.company_name.value]
    ELSE IF truthy(apollo_data.name)
    THEN [set |-> TRUE, value |-> apollo_data.name.value]
    ELSE stored

\* variant: the search is made with the name the payloads give
TavilyQuery_resolved(domain, stored, apollo_data, coresignal_data) ==
    company_name(domain, set_company_name_from_data(stored, apollo_data, coresignal_data))

\* fetch_tavily_data: get_major_customers_async(self.company_name), the
\* property being read when the task runs inside asyncio.gather
TavilyQuery(domain, stored, apollo_data, coresignal_data) ==
    company_name(domain, stored)

\* the web-search task of research_company
FetchTavily ==
    /\ naming.stage = "new"
    /\ ~naming.searched
    /\ naming' = [naming EXCEPT
                     !.searched = TRUE,
                     !.query = TavilyQuery(naming.domain, naming.stored,
                                           naming.apollo_data, naming.coresignal_data)]
    /\ UNCHANGED <<serverVars, prompting, sideVars>>

\* research_company after the join: "Set company name from API data", then
\* "company_name": self.company_name in the dictionary it returns.
\* apollo_data.get("organization", {}) is None for "organization": null, and
\* None.get raises AttributeError.
SetCompanyName ==
    /\ naming.stage = "new"
    /\ naming.searched
    /\ IF naming.apollo_data.organization.kind = "null"
       THEN naming' = [naming EXCEPT !.stage = "raised"]
       ELSE LET stored == set_company_name_from_data(naming.stored,
                              naming.apollo_data, naming.coresignal_data)
            IN naming' = [naming EXCEPT !.stage = "named", !.stored = stored,
                              !.company_name = company_name(naming.domain, stored)]
    /\ UNCHANGED <<serverVars, prompting, sideVars>>

\* a researcher for every identifier, with every shape of the two payloads
NameInit ==
    /\ Boot
    /\ Aside
    /\ GOOGLE_DRIVE_AVAILABLE
    /\ EMAIL_SERVICE_AVAILABLE
    /\ keys = Providers
    /\ prompting = NoPrompting
    /\ naming \in [stage : {"new"}, domain : Identifiers,
                   apollo_data : ApolloPayloads,
                   coresignal_data : CoreSignalPayloads,
                   stored : {NoName}, company_name : {<<>>},
                   searched : {FALSE}, query : {<<>>}]

NameNext ==
    \/ FetchTavily
    \/ SetCompanyName

NameSpec == NameInit /\ [][NameNext]_vars

\* ------------------------------------------------------ the LLM prompt
\* competitors = competitors[:5]
TopCompetitors == 5
\* company_updates[:3]
NewsItems == 3
\* update.get("description", ...)[:500] and the "..." that follows it
DescriptionBudget == 500
Marker == <<".", ".", ".">>

\* similarity_score of a competitor: missing, or a number
NoScore == -1
Scores == {NoScore, 1, 2}
\* key=lambda x: x.get("similarity_score") or 0
sort_key(x) == IF x.similarity_score = NoScore THEN 0 ELSE x.similarity_score

\* list.sort(key=..., reverse=True): descending and stable
RECURSIVE sort_reverse(_)
sort_reverse(list) ==
    IF list = <<>> THEN <<>>
    ELSE LET x == list[Len(list)]
             front == sort_reverse(SubSeq(list, 1, Len(list) - 1))
             k == Cardinality({i \in 1..Len(front) : sort_key(front[i]) >= sort_key(x)})
         IN SubSeq(front, 1, k) \o <<x>> \o SubSeq(front, k + 1, Len(front))

\* list[:n]
first(list, n) == SubSeq(list, 1, IF Len(list) < n THEN Len(list) ELSE n)

\* the competitors of a payload; name is the place in the upstream list
CompetitorLists ==
    UNION {{[i \in 1..n |-> [name |-> i, similarity_score |-> score[i]]] :
               score \in [1..n -> Scores]} : n \in 0..MaxCompetitors}

\* a description of n characters
Text(n) == [i \in 1..n |-> "x"]
Descriptions == {Text(DescriptionBudget), Text(DescriptionBudget + 1)}
Dates == {1, 2}

\* the update items of a payload; id is the place in the upstream list
UpdateLists ==
    UNION {{[i \in 1..n |-> [id |-> i, date |-> item[i].date,
                             description |-> item[i].description]] :
               item \in [1..n -> [date : Dates, description : Descriptions]]} :
           n \in 0..MaxUpdates}

\* the "**Summary:**" of a news item
Summary(description) ==
    first(description, DescriptionBudget)
    \o (IF Len(description) > DescriptionBudget THEN Marker ELSE <<>>)

\* news: one entry for each of company_updates[:3]
News(company_updates) ==
    [i \in 1..Len(first(company_updates, NewsItems)) |->
        [id |-> company_updates[i].id, date |-> company_updates[i].date,
         summary |-> Summary(company_updates[i].description)]]

\* the f-string the completion service is called with.  data is the
\* json.dumps of the whole payload, whose competitors list the sort has
\* reordered in place.  generate_llm_company_report builds news and the
\* top competitors too but puts neither into its prompt.
Prompt(endpoint, coresignal_data) ==
    LET sorted == sort_reverse(coresignal_data.competitors)
        data == [competitors |-> sorted,
                 company_updates |-> coresignal_data.company_updates]
    IN IF endpoint = "coresignal"
       THEN [competitors |-> first(sorted, TopCompetitors),
             news |-> News(coresignal_data.company_updates),
             all_company_updates |->
                 [i \in 1..Len(coresignal_data.company_updates) |->
                     coresignal_data.company_updates[i].description],
             data |-> data]
       ELSE [NoPrompt EXCEPT !.data = data]

\* generate_llm_company_report / generate_markdown_report_with_llm up to the
\* completion call
BuildPrompt ==
    /\ prompting.stage = "new"
    /\ prompting' =
          [prompting EXCEPT
              !.stage = "built",
              !.prompt = Prompt(prompting.endpoint, prompting.coresignal_data),
              !.coresignal_data.competitors =
                  sort_reverse(prompting.coresignal_data.competitors)]
    /\ UNCHANGED <<serverVars, naming, sideVars>>

\* the fetch of the CoreSignal payload has returned data: coresignal_data is
\* the dictionary the handler holds, fetched what the fetch returned
Fetched(endpoint, data) ==
    [stage |-> "new", endpoint |-> endpoint, coresignal_data |-> data,
     fetched |-> data, prompt |-> NoPrompt]

\* a payload with any list of competitors
CompetitorInit ==
    /\ Boot
    /\ Aside
    /\ GOOGLE_DRIVE_AVAILABLE
    /\ EMAIL_SERVICE_AVAILABLE
    /\ keys = Providers
    /\ naming = NoNaming
    /\ prompting \in {Fetched(e, d) :
                          e \in Endpoints,
                          d \in [competitors : CompetitorLists, company_updates : {<<>>}]}

\* a payload with any list of update items
UpdateInit ==
    /\ Boot
    /\ Aside
    /\ GOOGLE_DRIVE_AVAILABLE
    /\ EMAIL_SERVICE_AVAILABLE
    /\ keys = Providers
    /\ naming = NoNaming
    /\ prompting \in {Fetched(e, d) :
                          e \in Endpoints,
                          d \in [competitors : {<<>>}, company_updates : UpdateLists]}

PromptNext == BuildPrompt

CompetitorSpec == CompetitorInit /\ [][PromptNext]_vars
UpdateSpec == UpdateInit /\ [][PromptNext]_vars

\* a server at rest, for the computations beside the request handlers
Rest ==
    /\ Boot
    /\ GOOGLE_DRIVE_AVAILABLE
    /\ EMAIL_SERVICE_AVAILABLE
    /\ keys = Providers
    /\ naming = NoNaming
    /\ prompting = NoPrompting

\* ------------------------------------------------------ the event loop
\* what a handler does between its construction and its return
Steps == <<"fetch", "synth", "render", "deliver">>

\* the handler gives the event loop back while the step is under way:
\*   fetch   : await researcher.research_company() / await asyncio.to_thread(...)
\*   synth   : await self.llm.ainvoke(...) in research_company;
\*             coresignal_api.generate_markdown_report_with_llm(api_response),
\*             a plain call of model.invoke, in the CoreSignal-only handler
\*   render  : subprocess.run(simple_cmd, check=True), a plain call
\*   deliver : uploader.upload_file(...) and email_service.send_pdf_report(...),
\*             plain calls
Suspends(endpoint, step) ==
    \/ step = "fetch"
    \/ step = "synth" /\ endpoint = "multi"

\* a request arrives and its handler is scheduled
Arrive(h, e) ==
    /\ loop.phase[h] = "none"
    /\ loop' = [loop EXCEPT !.endpoint[h] = e, !.at[h] = 1, !.phase[h] = "ready"]
    /\ UNCHANGED <<serverVars, naming, prompting, race, slugging>>

\* the event loop, free, runs a handler that is ready
Resume(h) ==
    /\ loop.thread = NoThread
    /\ loop.phase[h] = "ready"
    /\ loop' = [loop EXCEPT !.thread = h, !.phase[h] = "running"]
    /\ UNCHANGED <<serverVars, naming, prompting, race, slugging>>

\* the running handler starts its next step
Enter(h) ==
    /\ loop.thread = h
    /\ loop.phase[h] = "running"
    /\ loop.at[h] <= Len(Steps)
    /\ loop' = [loop EXCEPT
                   !.phase[h] = "inside",
                   !.thread = IF Suspends(loop.endpoint[h], Steps[loop.at[h]])
                              THEN NoThread ELSE h]
    /\ UNCHANGED <<serverVars, naming, prompting, race, slugging>>

\* the step is over: a handler that had suspended waits for the loop, one
\* that had not goes on at once
Leave(h) ==
    /\ loop.phase[h] = "inside"
    /\ loop' = [loop EXCEPT
                   !.at[h] = @ + 1,
                   !.phase[h] = IF Suspends(loop.endpoint[h], Steps[loop.at[h]])
                                THEN "ready" ELSE "running"]
    /\ UNCHANGED <<serverVars, naming, prompting, race, slugging>>

\* the handler returns its response
Return(h) ==
    /\ loop.thread = h
    /\ loop.phase[h] = "running"
    /\ loop.at[h] > Len(Steps)
    /\ loop' = [loop EXCEPT !.phase[h] = "done", !.thread = NoThread]
    /\ UNCHANGED <<serverVars, naming, prompting, race, slugging>>

\* ------------------------------------------- identifiers and cache files
\* what identifiers are put together from; MaxParts of them at most
SlugPieces == {<<"a">>, WWW, <<"b", ".", "c">>}
SlugIdentifiers ==
    {join(parts) : parts \in UNION {[1..n -> SlugPieces] : n \in 1..MaxParts}}

\* the cache files the clients of a request for this identifier use
CacheFiles(endpoint, identifier) ==
    LET req == [NoRequest EXCEPT !.endpoint = endpoint, !.domain = identifier]
    IN [p \in CachedProviders |-> file_path(p, ClientArg(req, p))]

\* the clients of two requests work out their file names
ResolveFiles ==
    /\ slugging.stage = "new"
    /\ slugging' = [slugging EXCEPT
                       !.stage = "resolved",
                       !.paths = <<CacheFiles(slugging.endpoint, slugging.first),
                                   CacheFiles(slugging.endpoint, slugging.second)>>]
    /\ UNCHANGED <<serverVars, naming, prompting, loop, race>>

\* two requests to one endpoint, each with an identifier of its own
SlugInit ==
    /\ Rest
    /\ loop = NoLoop
    /\ race = NoRace
    /\ slugging \in [stage : {"new"}, endpoint : Endpoints,
                     first : SlugIdentifiers, second : SlugIdentifiers,
                     paths : {<<>>}]

SlugNext == ResolveFiles

SlugSpec == SlugInit /\ [][SlugNext]_vars

\* ------------------------------------------- two fetches, one cache file
\* the answers of the upstream service: answer d is d blocks long when
\* dumped, and block i of it is [doc |-> d, i |-> i]
RaceDocs == 1..NumRaceDocs
Body(d) == [i \in 1..d |-> [doc |-> d, i |-> i]]

\* json.load succeeds on the file: it holds one whole dumped answer
Parses(file) == \E d \in RaceDocs : file.cells = Body(d)

\* "if os.path.exists(file_path)": return what json.load gives; on
\* json.JSONDecodeError go on to the network call, as when there is no file
RaceLookup(r) ==
    /\ race.pos[r] = "start"
    /\ race' = IF race.file.exists /\ Parses(race.file)
               THEN [race EXCEPT !.pos[r] = "done",
                                 !.returned[r] = race.file.cells]
               ELSE [race EXCEPT !.pos[r] = "http"]
    /\ UNCHANGED <<serverVars, naming, prompting, loop, slugging>>

\* requests.get(...); result = response.json()
RaceHttp(r, d) ==
    /\ race.pos[r] = "http"
    /\ race' = [race EXCEPT !.pos[r] = "open", !.fresh[r] = d]
    /\ UNCHANGED <<serverVars, naming, prompting, loop, slugging>>

\* open(file_path, "w"): the file is created or cut to length zero; the
\* writer's position is the start of the file
RaceOpen(r) ==
    /\ race.pos[r] = "open"
    /\ race' = [race EXCEPT !.pos[r] = "dump",
                            !.file = [exists |-> TRUE, cells |-> <<>>]]
    /\ UNCHANGED <<serverVars, naming, prompting, loop, slugging>>

\* json.dump(result, f) and the close of the file: the dumped answer goes
\* over the file from the writer's position, what lies beyond it stays;
\* then "return result"
RaceDump(r) ==
    /\ race.pos[r] = "dump"
    /\ LET new == Body(race.fresh[r])
           old == race.file.cells
       IN race' = [race EXCEPT
                      !.pos[r] = "done",
                      !.file.cells = new \o SubSeq(old, Len(new) + 1, Len(old)),
                      !.last = r,
                      !.returned[r] = new]
    /\ UNCHANGED <<serverVars, naming, prompting, loop, slugging>>

\* two fetches for one identifier start on a cold cache
RaceInit ==
    /\ Rest
    /\ loop = NoLoop
    /\ slugging = NoSlugging
    /\ race \in {[NoRace EXCEPT !.stage = "racing", !.provider = p,
                                !.pos = [r \in Racers |-> "start"]] :
                    p \in CachedProviders}

RaceNext ==
    \E r \in Racers :
        \/ RaceLookup(r)
        \/ \E d \in RaceDocs : RaceHttp(r, d)
        \/ RaceOpen(r)
        \/ RaceDump(r)

RaceSpec == RaceInit /\ [][RaceNext]_vars

LoopInit ==
    /\ Rest
    /\ loop = NoLoop
    /\ race = NoRace
    /\ slugging = NoSlugging

LoopNext ==
    \E h \in Handlers :
        \/ \E e \in Endpoints : Arrive(h, e)
        \/ Resume(h)
        \/ Enter(h)
        \/ Leave(h)
        \/ Return(h)

LoopSpec == LoopInit /\ [][LoopNext]_vars

\* several plain requests (no email, no upload) one after the other, so that
\* later ones find the cache files the earlier ones left
\* the upstream documents vary from call to call; the sinks are not used,
\* so the two module flags are fixed
CacheInit ==
    /\ Init
    /\ GOOGLE_DRIVE_AVAILABLE
    /\ EMAIL_SERVICE_AVAILABLE

CacheNext ==
    \/ /\ reqNo < MaxCacheRequests
       /\ \E e \in Endpoints, d \in Domains : StartRequest(e, d, None, FALSE, None)
       /\ UNCHANGED warm
    \/ Serve(Docs)

CacheSpec == CacheInit /\ [][CacheNext]_vars

\* something outside the program damages the cache file the clients of a
\* request to endpoint e for domain d use for provider p
Damage(p, e, d, fault) ==
    /\ pc = "idle"
    /\ DOMAIN files = {}
    /\ files' = [x \in {CacheFiles(e, d)[p]} |->
                    [valid |-> FALSE, doc |-> NoDoc, fault |-> fault]]
    /\ UNCHANGED <<flagVars, fixedVars, reqNo, request, pc, fetchVars, llm_calls,
                   bundle, deliveryVars, response, warm, ack>>

\* plain requests to a server one of whose cache files is damaged
DamageNext ==
    \/ \E p \in CachedProviders, e \in Endpoints, d \in Domains, fault \in Faults :
          Damage(p, e, d, fault)
    \/ /\ reqNo < MaxCacheRequests
       /\ \E e \in Endpoints, d \in Domains : StartRequest(e, d, None, FALSE, None)
       /\ UNCHANGED warm
    \/ Serve(OneDoc)

DamageSpec == CacheInit /\ [][DamageNext]_vars

\* several research requests one after the other, with the history of what
\* the first research call for each domain returned
WarmNext ==
    \/ /\ reqNo < MaxCacheRequests
       /\ \E d \in Domains : StartRequest("multi", d, None, FALSE, None)
       /\ Remember
    \/ Serve(Docs)

WarmSpec == CacheInit /\ [][WarmNext]_vars

\* plain requests to a server whose environment lacks some of the API keys
CredInit ==
    /\ Boot
    /\ Aside
    /\ GOOGLE_DRIVE_AVAILABLE
    /\ EMAIL_SERVICE_AVAILABLE
    /\ keys \in SUBSET Providers
    /\ naming = NoNaming
    /\ prompting = NoPrompting

CredNext ==
    \/ /\ reqNo < MaxRequests
       /\ \E e \in Endpoints, d \in Domains : StartRequest(e, d, None, FALSE, None)
       /\ UNCHANGED warm
    \/ Serve(OneDoc)

CredSpec == CredInit /\ [][CredNext]_vars

\* requests to the two background endpoints
BackgroundNext ==
    \/ /\ reqNo < MaxRequests
       /\ \E e \in Endpoints, w \in Websites, m \in Emails \ {None}, f \in FolderIds :
             StartBackground(e, w, m, f)
       /\ UNCHANGED warm
    \/ Serve(OneDoc)

BackgroundSpec == Init /\ [][BackgroundNext]_vars

TypeOK ==
    /\ pc \in {"idle", "research", "synth", "render", "upload", "email", "respond", "done"}
    /\ reqNo \in 0..(MaxRequests + MaxCacheRequests)
    /\ \A p \in Providers : task[p] \in {"idle", "start", "http", "write", "ok", "fail"}
    /\ pdf \in {"none", "empty", "rendered", "deleted"}

\* ------------------------------------------------------------ properties
\* the request got through the render step
Rendered == pdf \in {"rendered", "deleted"}
\* the handler has returned or raised
Completed == pc = "done"

\* C1: in research_company, when one of the three provider fetches raises,
\* the research raises that error: the completion service is never called
\* for the request, no result dictionary is returned, and the request ends
\* with the error of the fetch that failed first.
C1_FetchFailureFailsResearch ==
    (request.endpoint = "multi" /\ \E p \in Providers : task[p] = "fail") =>
        /\ llm_calls = 0
        /\ ~bundle.present
        /\ pc \in {"research", "done"}
        /\ Completed => /\ response.kind = "http_error"
                        /\ response.cause = firstExc
                        /\ task[firstExc] = "fail"

C1_Witness ==
    /\ Completed
    /\ request.endpoint = "multi"
    /\ task["coresignal"] = "fail"
    /\ task["apollo"] = "ok"
    /\ task["tavily"] = "ok"
    /\ response.kind = "http_error"
    /\ response.cause = "coresignal"

\* C2: a request whose render succeeded is answered by precedence: a JSON
\* summary when an email address was supplied, whatever the sinks did;
\* otherwise a JSON summary with the cloud link when the upload succeeded;
\* otherwise the PDF file itself.  Both endpoints.
C2_ResponseShapePrecedence ==
    (Completed /\ Rendered) =>
        IF request.email # None
        THEN response.kind = "json"
        ELSE IF sinks.upload = "stored"
        THEN /\ response.kind = "json"
             /\ response.google_drive.success
             /\ response.google_drive.view_link # None
        ELSE response.kind = "file"

C2_Witness ==
    /\ Completed
    /\ request.endpoint = "coresignal"
    /\ request.email # None
    /\ sinks.upload = "no_result"
    /\ sinks.email = "send_raises"
    /\ response.kind = "json"

C4_ArtifactOrError ==
    Completed =>
        \/ response.kind = "http_error"
        \/ response.kind = "file"
        \/ /\ response.kind = "json"
           /\ \/ response.google_drive.present /\ response.google_drive.success
              \/ sent.delivered

\* where the PDF of a completed delivery can be found
Homes ==
    (IF sent.delivered /\ sent.attached THEN {"inbox"} ELSE {})
    \cup (IF sinks.upload = "stored" THEN {"cloud"} ELSE {})
    \cup (IF response.kind = "file" THEN {"download"} ELSE {})

\* C5: after every completed delivery the PDF has exactly one durable home
\* among inbox attachment, cloud link and client download.
C5_ExactlyOneHome ==
    (Completed /\ response.kind \in {"json", "file"}) => Cardinality(Homes) = 1

\* C6: whenever an email address is supplied the JSON response carries an
\* email outcome record (success, or failure with an error message) in every
\* case, and an upload outcome record whenever the upload was requested.
C6_OutcomeRecordPerSink ==
    (Completed /\ Rendered /\ request.email # None) =>
        /\ response.kind = "json"
        /\ response.email_result.present
        /\ response.email_result.success \/ response.email_result.error # None
        /\ request.upload_to_drive => response.google_drive.present

UploadFailed == sinks.upload \in {"unavailable", "no_folder", "ctor_raises", "no_result"}
EmailFailed == sinks.email \in {"ctor_raises", "not_configured", "send_raises"}

\* C7: a sink failure is never an HTTP error and never stops the delivery:
\* a missing folder id, an unavailable uploader, an exception or an empty
\* result of the upload, an unconfigured mail transport and an exception while
\* sending each leave a record with success = false and an error; the email
\* step still runs after a failed upload; the handler answers successfully.
C7_SinkFailuresAreRecorded ==
    /\ UploadFailed =>
          /\ drive_result.present /\ ~drive_result.success
          /\ drive_result.error # None
          /\ pc \in {"email", "respond", "done"}
    /\ EmailFailed =>
          /\ email_result.present /\ ~email_result.success
          /\ email_result.error # None
          /\ pc \in {"respond", "done"}
    /\ (UploadFailed /\ request.email # None /\ EMAIL_SERVICE_AVAILABLE
            /\ pc \in {"respond", "done"}) => sinks.email \in EmailOutcomes
    /\ (Completed /\ Rendered) =>
          /\ response.kind \in {"json", "file"}
          /\ response.status = 200

C7_Witness ==
    /\ Completed
    /\ sinks.upload = "no_result"
    /\ sinks.email = "sent"
    /\ sent.delivered
    /\ response.kind = "json"
    /\ ~response.google_drive.success

\* C8: when pandoc fails the delivery fails with an HTTP error: neither sink
\* is invoked and no file or JSON response is produced.
C8_RenderFailureIsFatal ==
    pdf = "empty" =>
        /\ Completed
        /\ sinks = NoSinks
        /\ drive_result = NoResult
        /\ email_result = NoResult
        /\ ~sent.delivered
        /\ response.kind = "http_error"
        /\ response.status = 500

C8_Witness ==
    /\ pdf = "empty"
    /\ request.email # None
    /\ request.upload_to_drive
    /\ request.upload_to_drive_folder_id # None
    /\ GOOGLE_DRIVE_AVAILABLE
    /\ EMAIL_SERVICE_AVAILABLE
    /\ response.kind = "http_error"

\* C9: for each of the three providers, once a research call for a domain
\* has returned, a later research call for the same domain makes no network
\* call to that provider and gets the payload the first call got.
C9_WarmCacheNoNetwork ==
    \A p \in Providers :
        (request.endpoint = "multi" /\ warm[p][request.domain] # NoDoc) =>
            /\ net[p] = 0
            /\ task[p] = "ok" => result[p] = warm[p][request.domain]

\* the same for the two clients that keep a cache file
CachedWarmNoNetwork ==
    \A p \in CachedProviders :
        (request.endpoint = "multi" /\ warm[p][request.domain] # NoDoc) =>
            /\ net[p] = 0
            /\ task[p] = "ok" => result[p] = warm[p][request.domain]

C11_UpstreamErrorFailsFetch ==
    \A p \in Providers :
        answered[p] = "bad" =>
            /\ task[p] = "fail"
            /\ (Completed /\ p \in Awaited(request.endpoint)) =>
                   response.kind = "http_error"

\* C12: for each of the three provider clients, when its API key is not set
\* the construction of the client raises a configuration error before the
\* fetch of that provider is started and before any network call to it, and
\* the request ends in an HTTP error.
C12_MissingKeyFailsConstruction ==
    \A p \in Providers :
        (p \in Awaited(request.endpoint) /\ p \notin keys) =>
            /\ task[p] = "idle"
            /\ net[p] = 0
            /\ Completed
            /\ response.kind = "http_error"
            /\ response.cause = "config"

\* the same for the two clients the handler constructs itself
ConstructedKeyIsChecked ==
    \A p \in Constructed(request.endpoint) :
        (request.endpoint \in Endpoints /\ p \notin keys) =>
            /\ \A q \in Providers : task[q] = "idle" /\ net[q] = 0
            /\ Completed
            /\ response.kind = "http_error"
            /\ response.cause = "config"

\* no payload of the researcher has a name field
NoNameField ==
    /\ ~naming.apollo_data.organization.name.present
    /\ ~naming.apollo_data.name.present
    /\ ~naming.coresignal_data.company_name.present

\* C13: name resolution is total: for every identifier, when no provider
\* payload carries a name field, the research yields a company name that is
\* not empty and is a function of the identifier alone; "example.com" gives
\* "Example".
C13_FallbackNameIsTotal ==
    /\ company_name(EXAMPLE \o DOTCOM, NoName) = <<"E", "x", "a", "m", "p", "l", "e">>
    /\ (naming.stage \notin {"none", "new"} /\ NoNameField) =>
          /\ naming.stage = "named"
          /\ naming.company_name # <<>>
          /\ naming.company_name = company_name(naming.domain, NoName)

Descending(list) ==
    \A i, j \in 1..Len(list) : i < j => sort_key(list[i]) >= sort_key(list[j])

\* the competitors that appear somewhere in the prompt
CompetitorsShown ==
    {prompting.prompt.competitors[i] : i \in 1..Len(prompting.prompt.competitors)}
    \cup {prompting.prompt.data.competitors[i] :
              i \in 1..Len(prompting.prompt.data.competitors)}

\* C15: for a CoreSignal payload with more than 5 competitors the prompt of
\* the completion call contains exactly 5 of them, none has a lower score
\* than a competitor left out (a missing score counting as zero), they are
\* listed in descending order of score, and no other competitor appears in
\* the prompt.
C15_TopFiveCompetitors ==
    (prompting.stage = "built"
        /\ Len(prompting.coresignal_data.competitors) > TopCompetitors) =>
        LET all == {prompting.coresignal_data.competitors[i] :
                       i \in 1..Len(prompting.coresignal_data.competitors)}
        IN /\ Cardinality(CompetitorsShown) = TopCompetitors
           /\ CompetitorsShown \subseteq all
           /\ \A a \in CompetitorsShown, b \in all \ CompetitorsShown :
                 sort_key(a) >= sort_key(b)
           /\ Descending(prompting.prompt.competitors)
           /\ Descending(prompting.prompt.data.competitors)

\* the update items that appear somewhere in the prompt, by id
UpdatesShown ==
    {prompting.prompt.news[i].id : i \in 1..Len(prompting.prompt.news)}
    \cup {i \in 1..Len(prompting.prompt.all_company_updates) : TRUE}
    \cup {prompting.prompt.data.company_updates[i].id :
              i \in 1..Len(prompting.prompt.data.company_updates)}

\* the description texts of update item u that appear in the prompt
TextsShown(u) ==
    {prompting.prompt.news[i].summary :
        i \in {j \in 1..Len(prompting.prompt.news) : prompting.prompt.news[j].id = u}}
    \cup {prompting.prompt.all_company_updates[i] :
              i \in {j \in 1..Len(prompting.prompt.all_company_updates) : j = u}}
    \cup {prompting.prompt.data.company_updates[i].description :
              i \in {j \in 1..Len(prompting.prompt.data.company_updates) :
                        prompting.prompt.data.company_updates[j].id = u}}

\* C16: for a CoreSignal payload with more than 3 update items the prompt of
\* the completion call contains exactly 3 of them, the 3 most recent, and
\* every description in it is cut to 500 characters, followed by "..."
\* exactly when the original is longer than 500.
C16_ThreeNewsItemsCapped ==
    (prompting.stage = "built"
        /\ Len(prompting.coresignal_data.company_updates) > NewsItems) =>
        LET updates == prompting.coresignal_data.company_updates
            ids == 1..Len(updates)
        IN /\ Cardinality(UpdatesShown) = NewsItems
           /\ \A a \in UpdatesShown, b \in ids \ UpdatesShown :
                 updates[a].date >= updates[b].date
           /\ \A u \in UpdatesShown : \A t \in TextsShown(u) :
                 /\ Len(t) <= DescriptionBudget + Len(Marker)
                 /\ t = first(updates[u].description, DescriptionBudget)
                        \o (IF Len(updates[u].description) > DescriptionBudget
                            THEN Marker ELSE <<>>)

\* the part of the size rule that concerns the attachment alone: a message
\* that went out carries the PDF exactly when it is under the ceiling
AttachmentFollowsCeiling ==
    sent.delivered => (sent.attached <=> pdf_size < AttachLimit)

\* C17: a message that went out for a PDF at or above the 25 MB ceiling
\* carries no attachment and carries a link to the PDF instead; a message for
\* a PDF strictly under the ceiling carries the PDF.
C17_OversizedGoesByLink ==
    sent.delivered =>
        IF pdf_size >= AttachLimit
        THEN ~sent.attached /\ sent.link # None
        ELSE sent.attached

\* C18: the acknowledgement a background caller holds is the one the handler
\* returned when it started the run, status "processing" with the website and
\* the email of the request, in every state of the detached run and whatever
\* the run's outcome is.
C18_AcknowledgementIsFinal ==
    request.background =>
        /\ ack.status = "processing"
        /\ ack.email = request.email
        /\ request.domain = (IF request.endpoint = "multi"
                             THEN extract_domain(ack.website) ELSE ack.website)

\* a detached run has ended in an HTTP error and the acknowledgement stands
C18_Witness ==
    /\ request.background
    /\ Completed
    /\ response.kind = "http_error"
    /\ response.detail = "pandoc"
    /\ ack = Acknowledgement(ack.website, request.email)

\* the report generation of the request has failed
SynthesisFailed == Completed /\ response = HttpError("research", "llm")

SynthesisReached ==
    \/ pc \in {"synth", "render", "upload", "email", "respond"}
    \/ llm_calls > 0
    \/ bundle.present

\* C20: in a request for the three providers no fetch is done while another
\* has not been started, and the report generation is reached only with
\* every awaited fetch done and successful.
C20_FetchesJoinedBeforeSynthesis ==
    /\ (request.endpoint = "multi" /\ \E p \in Providers : task[p] \in {"ok", "fail"})
          => \A p \in Providers : task[p] # "idle"
    /\ SynthesisReached => \A p \in Awaited(request.endpoint) : task[p] = "ok"

\* the completion call was made after three fetches that all went to their
\* upstream
C20_Witness ==
    /\ request.endpoint = "multi"
    /\ llm_calls = 1
    /\ \A p \in Providers : task[p] = "ok" /\ net[p] = 1

\* the three fetches are in flight at the same time
FetchesOverlap ==
    request.endpoint = "multi" /\ \A p \in Providers : task[p] = "http"

\* handler h is inside its completion call or its pandoc run
InsideSynthOrRender(h) ==
    /\ loop.phase[h] = "inside"
    /\ Steps[loop.at[h]] \in {"synth", "render"}

\* C21: while a handler is inside its completion call or its pandoc run it
\* does not hold the event loop, so that another handler that is ready can
\* be run; for both endpoints.
C21_BlockingStepsLeaveLoopFree ==
    \A h, g \in Handlers :
        (h # g /\ InsideSynthOrRender(h) /\ loop.phase[g] = "ready") =>
            loop.thread # h

\* C22: the CoreSignal payload that research_company puts into raw_data
\* after the report generation is equal, the order of its competitors
\* included, to the payload the fetch returned.
C22_PayloadUnchangedBySynthesis ==
    (prompting.stage = "built" /\ prompting.endpoint = "multi") =>
        prompting.coresignal_data = prompting.fetched

\* both racing fetches have returned
RaceOver == \A r \in Racers : race.pos[r] = "done"

\* every fetch that has returned returned one whole answer
RacersReturnWholeAnswers ==
    \A r \in Racers :
        race.pos[r] = "done" => \E d \in RaceDocs : race.returned[r] = Body(d)

\* C23: of two fetches racing on a cold cache each returns one whole answer,
\* and when both have returned the cache file holds exactly the dumped answer
\* of the fetch that wrote last.
C23_LastWriterWins ==
    /\ RacersReturnWholeAnswers
    /\ (RaceOver /\ race.last # NoWriter) =>
          race.file.cells = Body(race.fresh[race.last])

\* C24: the query of the web search is the fallback name of the identifier,
\* whatever name the Apollo and CoreSignal payloads of the same request give
\* and whatever the company name of the result is.
C24_SearchUsesFallbackName ==
    naming.searched => naming.query = company_name(naming.domain, NoName)

\* the result is named after a payload, the search was made with the
\* fallback name
C24_Witness ==
    /\ naming.stage = "named"
    /\ naming.stored.set
    /\ naming.company_name = ORG
    /\ naming.query # naming.company_name
    /\ naming.query = company_name(naming.domain, NoName)

\* C25: every cache file that loads holds the body of a successful answer of
\* its provider, and no fetch answered from the cache returns the body of an
\* upstream error.
C25_ErrorBodiesAreNotCached ==
    /\ \A path \in DOMAIN files :
          json_loadable(files[path]) => json_load(files[path]) # ErrorBody
    /\ \A p \in CachedProviders : cache_hit[p] => result[p] # ErrorBody

\* the identifier is a domain name: labels of letters separated by single
\* dots, two labels at least
IsDomain(identifier) ==
    /\ identifier # <<>>
    /\ Head(identifier) # "."
    /\ identifier[Len(identifier)] # "."
    /\ \E i \in 1..Len(identifier) : identifier[i] = "."
    /\ \A i \in 1..(Len(identifier) - 1) :
          ~(identifier[i] = "." /\ identifier[i + 1] = ".")

\* the company domain a domain name denotes: the name without its leading
\* "www" labels
RECURSIVE CompanyDomain(_)
CompanyDomain(identifier) ==
    IF startswith(identifier, WWW)
    THEN CompanyDomain(SubSeq(identifier, Len(WWW) + 1, Len(identifier)))
    ELSE identifier

\* the two identifiers are domain names of different companies
DifferentCompanies ==
    /\ IsDomain(slugging.first)
    /\ IsDomain(slugging.second)
    /\ IsDomain(CompanyDomain(slugging.first))
    /\ IsDomain(CompanyDomain(slugging.second))
    /\ CompanyDomain(slugging.first) # CompanyDomain(slugging.second)

\* the Apollo file names of different companies differ
ApolloFilesDiffer ==
    (slugging.stage = "resolved" /\ DifferentCompanies) =>
        slugging.paths[1]["apollo"] # slugging.paths[2]["apollo"]

\* C26: for each provider, the identifiers of two different company domains
\* are given different cache files.
C26_CacheFileNamesInjective ==
    (slugging.stage = "resolved" /\ DifferentCompanies) =>
        \A p \in CachedProviders : slugging.paths[1][p] # slugging.paths[2][p]

\* C27: the response of the multi-source endpoint carries the raw provider
\* payloads exactly when return_data is true and the response is JSON; the
\* payloads it carries are those of the research; a file response carries
\* none, return_data or not.
C27_RawDataOnlyInJson ==
    (Completed /\ request.endpoint = "multi" /\ response.status = 200) =>
        /\ response.raw_data.present <=>
              (request.return_data /\ response.kind = "json")
        /\ response.raw_data.present => response.raw_data = bundle
        /\ response.kind = "file" => response.raw_data = NoBundle

\* return_data was asked for and the answer is the file
C27_Witness ==
    /\ Completed
    /\ request.endpoint = "multi"
    /\ request.return_data
    /\ response.kind = "file"
    /\ bundle.present
    /\ ~response.raw_data.present

\* return_data was asked for and the JSON answer carries the payloads
RawDataDelivered ==
    /\ Completed
    /\ request.return_data
    /\ response.kind = "json"
    /\ response.raw_data.present

\* the email sink has been entered
EmailStepBegun ==
    \/ sinks.email # "skipped"
    \/ email_result.present
    \/ sent.delivered

\* C28: the email sink is entered only when the upload step is over, and a
\* message that went out carries a cloud link exactly when the upload was
\* requested and stored the file.
C28_LinkIffUploadSucceeded ==
    /\ EmailStepBegun =>
          /\ pc \in {"respond", "done"}
          /\ sinks.upload # "skipped"
    /\ sent.delivered =>
          (sent.link # None <=>
              (request.upload_to_drive /\ sinks.upload = "stored"
               /\ drive_result.success))

\* a message went out after an upload that was requested and failed
C28_Witness ==
    /\ sent.delivered
    /\ request.upload_to_drive
    /\ sinks.upload = "no_result"
    /\ drive_result.present
    /\ sent.link = None

\* a message went out with the link of the stored file
LinkDelivered ==
    sent.delivered /\ sinks.upload = "stored" /\ sent.link = "webViewLink"

\* C29: a background request has the upload on and an email address; its
\* email goes out only after fetches, report generation and render that all
\* succeeded and an email sink that succeeded; a run that ends in an error
\* has entered no sink and sent nothing.
C29_BackgroundEmailOnlyOnSuccess ==
    request.background =>
        /\ request.upload_to_drive
        /\ request.email # None
        /\ sent.delivered =>
              /\ \A p \in Awaited(request.endpoint) : task[p] = "ok"
              /\ llm_calls = 1
              /\ Rendered
              /\ sinks.email = "sent"
              /\ email_result.success
        /\ response.kind = "http_error" =>
              /\ ~sent.delivered
              /\ sinks = NoSinks

\* the email of a background run went out although its upload failed
C29_Witness ==
    /\ request.background
    /\ Completed
    /\ sent.delivered
    /\ sinks.upload = "ctor_raises"
    /\ ack.status = "processing"

\* a background run ended in the render and nothing was sent
BackgroundRunLost ==
    /\ request.background
    /\ Completed
    /\ response.detail = "pandoc"
    /\ ~sent.delivered

\* the cache file of provider p for the request being served
CacheFileOf(p) == file_path(p, ClientArg(request, p))

\* a fetch fails before its network call only on a cache file whose bytes
\* are not text
OnlyBinaryDamageFails ==
    \A p \in CachedProviders :
        (task[p] = "fail" /\ net[p] = 0) =>
            /\ exists(files, CacheFileOf(p))
            /\ files[CacheFileOf(p)].fault = "not_text"

\* C30: a cache file that does not load never makes the fetch fail and is
\* never returned: the fetch fails only at or after its network call, a
\* fetch answered from the cache returns a loaded payload, and a fetch that
\* went to the network and succeeded leaves its payload in the cache file,
\* where the next fetch finds it.
C30_DamagedCacheIsRefetched ==
    \A p \in CachedProviders :
        /\ task[p] = "fail" => net[p] >= 1
        /\ cache_hit[p] => (task[p] = "ok" /\ result[p] # NoDoc /\ net[p] = 0)
        /\ (task[p] = "ok" /\ ~cache_hit[p]) =>
              /\ exists(files, CacheFileOf(p))
              /\ LoadOutcome(files[CacheFileOf(p)]) = "loaded"
              /\ json_load(files[CacheFileOf(p)]) = result[p]

====
